---- MODULE Spec2Model ----
(***************************************************************************)
(* Model of the logging subsystem of rca-toy: src/utils/logging.py         *)
(* (SetColor, SetLogConfig, StreamToLogger, SetLogger) and the CLI entry   *)
(* point src/main.py (setup_logging, main).                                *)
(*                                                                         *)
(* Text that the code inspects character by character (the chunks given to *)
(* StreamToLogger.write) is a sequence of one-character strings; text that *)
(* is only built and compared (messages, paths, rendered lines) is a       *)
(* string.  The escape character of the colour codes is written <ESC>.     *)
(***************************************************************************)
EXTENDS Integers, Sequences, FiniteSets, TLC

VARIABLES
    loggerLevel,   \* threshold of the root logger (logging.getLogger())
    handlers,      \* root logger's handlers, in attachment order
    dirs,          \* directories that exist on the file system
    stderr,        \* the object bound to sys.stderr
    nRedirect,     \* number of StreamToLogger objects constructed so far
    imported,      \* whether src/main.py has been imported (runs line 12)
    out,           \* the logger.log calls made by the last operation
    op,            \* the last operation and the values it computed
    rec,           \* the LogRecord last given to SetColor.format
    rendered,      \* the string SetColor.format returned for rec
    formatted,     \* the severities SetColor.format has been applied to
    used,          \* the colour prefixes SetColor.format has selected
    pc,            \* per thread: position inside StreamToLogger.write
    arg,           \* per thread: the argument buf of its write call
    lines,         \* per thread: the lines the for loop has yet to visit
    msg,           \* per thread: the local variable msg
    sent           \* per thread: the messages it passed to logger.log

vars == <<loggerLevel, handlers, dirs, stderr, nRedirect, imported, out, op,
          rec, rendered, formatted, used, pc, arg, lines, msg, sent>>

logVars == <<loggerLevel, handlers, dirs, stderr, nRedirect, imported, out, op>>
fmtVars == <<rec, rendered, formatted, used>>
thrVars == <<pc, arg, lines, msg, sent>>

-----------------------------------------------------------------------------
(* Bounds *)

MaxLen == 4        \* longest chunk given to write in SpecWrite
MaxBuf == 1        \* most fragments a write may leave in the LineBuffer
MaxConcLen == 3    \* longest chunk given to write by a thread in SpecConc

-----------------------------------------------------------------------------
(* Severities of the logging library *)

DEBUG == 10
INFO == 20
WARNING == 30
ERROR == 40
CRITICAL == 50

NamedLevels == {DEBUG, INFO, WARNING, ERROR, CRITICAL}
OtherLevels == {5, 25, 60}
LevelNos == NamedLevels \cup OtherLevels

\* the levels passed as log_level to the constructors
LevelArgs == {DEBUG, INFO, CRITICAL}

None == "<None>"

-----------------------------------------------------------------------------
(* Text helpers: str.rstrip, str.splitlines, "".join *)

Chars == {"a", " ", "\n"}
Whitespace == {" ", "\n"}
LineBreaks == {"\n"}

Chunks(n) == UNION {[1..k -> Chars] : k \in 0..n}

RECURSIVE RStrip(_)
RStrip(s) ==
    IF s = <<>> THEN s
    ELSE IF s[Len(s)] \in Whitespace THEN RStrip(SubSeq(s, 1, Len(s) - 1))
    ELSE s

RECURSIVE SplitFrom(_, _, _)
SplitFrom(s, cur, acc) ==
    IF s = <<>> THEN (IF cur = <<>> THEN acc ELSE Append(acc, cur))
    ELSE IF Head(s) \in LineBreaks THEN SplitFrom(Tail(s), <<>>, Append(acc, cur))
    ELSE SplitFrom(Tail(s), Append(cur, Head(s)), acc)

SplitLines(s) == SplitFrom(s, <<>>, <<>>)

RECURSIVE Join(_)
Join(parts) == IF parts = <<>> THEN "" ELSE Head(parts) \o Join(Tail(parts))

RECURSIVE Digits(_)
Digits(n) ==
    LET d == <<"0", "1", "2", "3", "4", "5", "6", "7", "8", "9">>[(n % 10) + 1]
    IN IF n < 10 THEN d ELSE Digits(n \div 10) \o d

-----------------------------------------------------------------------------
(* The root logger: thresholds, handlers, Logger.log *)

maxBytesDefault == 200000000
backupCountsDefault == 5

StreamHandler(level) ==
    [kind |-> "StreamHandler", stream |-> "sys.stdout", level |-> level,
     formatter |-> "SetColor", file |-> None,
     maxBytes |-> 0, backupCount |-> 0]

RotatingFileHandler(log_file, level, max_bytes, backup_counts) ==
    [kind |-> "RotatingFileHandler", stream |-> "file", level |-> level,
     formatter |-> "Formatter", file |-> log_file,
     maxBytes |-> max_bytes, backupCount |-> backup_counts]

\* a guard that never sees the handlers already attached
HasHandlers_never(hs) == FALSE

\* Logger.hasHandlers() of the root logger
HasHandlers(hs) == hs # <<>>

\* Logger.isEnabledFor(levelno) of the root logger
IsEnabledFor(lvl, levelno) == levelno >= lvl

\* Logger.callHandlers: the handlers, in order, whose threshold admits the record
CallHandlers(hs, levelno) ==
    SelectSeq([i \in 1..Len(hs) |-> i], LAMBDA i : levelno >= hs[i].level)

\* logger.log(levelno, m) on a root logger with threshold lvl and handlers hs
LoggerLog(lvl, hs, levelno, m) ==
    [levelno |-> levelno, msg |-> m,
     passed |-> IsEnabledFor(lvl, levelno),
     sinks |-> IF IsEnabledFor(lvl, levelno) THEN CallHandlers(hs, levelno)
               ELSE <<>>]

-----------------------------------------------------------------------------
(* The file system *)

DirNames == {".", "logs", "logs/app"}
FileNames == {"run.log", "b.log"}

\* f"{log_path!s}/{log_name!s}"
LogFilePath(log_path, log_name) == log_path \o "/" \o log_name

PathNames == {LogFilePath(d, n) : d \in DirNames, n \in FileNames}

\* the directory a log file lives in
DirOf(p) == CHOOSE d \in DirNames : \E n \in FileNames : LogFilePath(d, n) = p

Parents(d) == IF d = "logs/app" THEN {"logs"} ELSE {}

\* a SetLogger that does not create the directory
MkDir_skip(ds, d) == ds

\* Path(log_path).mkdir(parents=True, exist_ok=True)
MkDir(ds, d) == ds \cup {d} \cup Parents(d)

-----------------------------------------------------------------------------
(* SetLogConfig.__init__ *)

\* `if log_file:`
Truthy(log_file) == log_file # None /\ log_file # ""

\* logging.basicConfig(..., handlers=[h]) attaches h only to a bare root logger
BasicConfig(hs, h) == IF Len(hs) = 0 THEN <<h>> ELSE hs

\* opening the log file fails when its directory does not exist
OpenFails(log_file, ds) == Truthy(log_file) /\ DirOf(log_file) \notin ds

\* a reconfiguration that also resets the thresholds of the attached handlers
ConfigureHandlers_relevel(hs, log_level, log_file, ds) ==
    IF hs # <<>> THEN [i \in 1..Len(hs) |-> [hs[i] EXCEPT !.level = log_level]]
    ELSE IF Truthy(log_file) /\ ~OpenFails(log_file, ds)
         THEN <<StreamHandler(log_level),
                RotatingFileHandler(log_file, log_level,
                    maxBytesDefault, backupCountsDefault)>>
         ELSE <<StreamHandler(log_level)>>

\* the root logger's handlers after SetLogConfig(log_level, log_file)
ConfigureHandlers(hs, log_level, log_file, ds) ==
    IF HasHandlers(hs) THEN hs
    ELSE LET stream_handler == StreamHandler(log_level)
             hs1 == BasicConfig(Append(hs, stream_handler), stream_handler)
         IN IF Truthy(log_file) /\ ~OpenFails(log_file, ds)
            THEN Append(hs1, RotatingFileHandler(log_file, log_level,
                                 maxBytesDefault, backupCountsDefault))
            ELSE hs1

SetLogConfig(log_level, log_file) ==
    /\ loggerLevel' = log_level
    /\ handlers' = ConfigureHandlers(handlers, log_level, log_file, dirs)
    /\ out' = <<>>
    /\ op' = [name |-> "SetLogConfig", log_level |-> log_level,
              log_file |-> log_file,
              hadHandlers |-> HasHandlers(handlers),
              raised |-> ~HasHandlers(handlers) /\ OpenFails(log_file, dirs)]
    /\ UNCHANGED <<dirs, stderr, nRedirect, imported>>
    /\ UNCHANGED <<fmtVars, thrVars>>

-----------------------------------------------------------------------------
(* StreamToLogger *)

TextIO == [kind |-> "TextIOWrapper"]

\* StreamToLogger(logger) with the default log_level
StreamToLogger(id) ==
    [kind |-> "StreamToLogger", id |-> id, log_level |-> ERROR, linebuf |-> <<>>]

\* a guard that never recognises an installed redirector
HasLoggerAttr_never(s) == FALSE

\* hasattr(sys.stderr, "logger")
HasLoggerAttr(s) == s.kind = "StreamToLogger"

\* sys.stderr is bound to a StreamToLogger
Redirected == stderr.kind = "StreamToLogger"

\* a loop body that buffers every blank line, not only lines of length 1
WriteLine_blank(linebuf, line) ==
    IF Len(line) <= 1
    THEN [linebuf |-> Append(linebuf, Join(line)), msgs |-> <<>>]
    ELSE [linebuf |-> <<>>,
          msgs |-> <<Join(linebuf \o <<Join(RStrip(line))>>)>>]

\* one iteration of the for loop of write
WriteLine(linebuf, line) ==
    IF Len(line) = 1
    THEN [linebuf |-> Append(linebuf, Join(line)), msgs |-> <<>>]
    ELSE [linebuf |-> <<>>,
          msgs |-> <<Join(linebuf \o <<Join(RStrip(line))>>)>>]

RECURSIVE WriteLoop(_, _, _)
WriteLoop(linebuf, ls, msgs) ==
    IF ls = <<>> THEN [linebuf |-> linebuf, msgs |-> msgs]
    ELSE LET r == WriteLine(linebuf, Head(ls))
         IN WriteLoop(r.linebuf, Tail(ls), msgs \o r.msgs)

\* the LineBuffer and the messages logged after write(buf)
Write(linebuf, buf) == WriteLoop(linebuf, SplitLines(RStrip(buf)), <<>>)

\* sys.stderr.write(buf) once sys.stderr is a StreamToLogger
StderrWrite(buf) ==
    /\ Redirected
    /\ LET r == Write(stderr.linebuf, buf)
       IN /\ Len(r.linebuf) <= MaxBuf
          /\ stderr' = [stderr EXCEPT !.linebuf = r.linebuf]
          /\ out' = [i \in 1..Len(r.msgs) |->
                        LoggerLog(loggerLevel, handlers, stderr.log_level, r.msgs[i])]
          /\ op' = [name |-> "write", buf |-> buf, before |-> stderr.linebuf]
    /\ UNCHANGED <<loggerLevel, handlers, dirs, nRedirect, imported>>
    /\ UNCHANGED <<fmtVars, thrVars>>

-----------------------------------------------------------------------------
(* SetLogger.__init__ *)

SetLoggerInit(log_path, log_name, log_level) ==
    LET path == IF log_path = None THEN "." ELSE log_path
        log_file == IF log_name = None THEN None
                    ELSE LogFilePath(path, log_name)
        made == MkDir(dirs, path)
    IN /\ dirs' = made
       /\ loggerLevel' = log_level
       /\ handlers' = ConfigureHandlers(handlers, log_level, log_file, made)
       /\ IF HasLoggerAttr(stderr)
          THEN UNCHANGED <<stderr, nRedirect>>
          ELSE /\ stderr' = StreamToLogger(nRedirect + 1)
               /\ nRedirect' = nRedirect + 1
       /\ out' = <<>>
       /\ op' = [name |-> "SetLogger", path_arg |-> log_path,
                 log_path |-> path, log_name |-> log_name,
                 log_level |-> log_level, log_file |-> log_file,
                 hadHandlers |-> HasHandlers(handlers), raised |-> FALSE]

SetLogger(log_path, log_name, log_level) ==
    /\ SetLoggerInit(log_path, log_name, log_level)
    /\ UNCHANGED imported
    /\ UNCHANGED <<fmtVars, thrVars>>

-----------------------------------------------------------------------------
(* src/main.py *)

\* line 12, run when the module is imported: logger = SetLogger().logger
ImportMain ==
    /\ ~imported
    /\ imported' = TRUE
    /\ SetLoggerInit(None, None, INFO)
    /\ UNCHANGED <<fmtVars, thrVars>>

UpdatedMsg == "Updated logger level to: DEBUG"

\* a setup_logging that leaves the handlers' thresholds alone
SetHandlerLevels_skip(hs) == hs

\* for handler in logger.handlers: handler.setLevel(logging.DEBUG)
SetHandlerLevels(hs) == [i \in 1..Len(hs) |-> [hs[i] EXCEPT !.level = DEBUG]]

\* the command main(verbose=...)
Main(verbose) ==
    /\ imported
    /\ IF verbose
       THEN /\ loggerLevel' = DEBUG
            /\ handlers' = SetHandlerLevels(handlers)
            /\ out' = <<LoggerLog(DEBUG, SetHandlerLevels(handlers), INFO, UpdatedMsg)>>
       ELSE /\ UNCHANGED <<loggerLevel, handlers>>
            /\ out' = <<>>
    /\ op' = [name |-> "main", verbose |-> verbose]
    /\ UNCHANGED <<dirs, stderr, nRedirect, imported>>
    /\ UNCHANGED <<fmtVars, thrVars>>

\* any caller logging through the root logger
Log(levelno, m) ==
    /\ out' = <<LoggerLog(loggerLevel, handlers, levelno, m)>>
    /\ op' = [name |-> "log", levelno |-> levelno, msg |-> m]
    /\ UNCHANGED <<loggerLevel, handlers, dirs, stderr, nRedirect, imported>>
    /\ UNCHANGED <<fmtVars, thrVars>>

-----------------------------------------------------------------------------
(* SetColor *)

grey == "<ESC>[38;20m"
yellow == "<ESC>[33;20m"
red == "<ESC>[31;20m"
bold_red == "<ESC>[31;1m"
bold_light_red == "<ESC>[91m;1m"
reset == "<ESC>[0m"

Styles == {grey, yellow, red, bold_red, bold_light_red}

\* a format string, as the sequence of its literal pieces and %-fields
log_format ==
    <<"%(asctime)s", " - ", "%(funcName)s", " - ", "%(levelname)s">>
    \o <<"- ", "%(message)s", " (", "%(filename)s", ":", "%(lineno)d", ")">>

\* the keys of FORMATS: five integer levels and the function logging.exception
IntKey(n) == <<"int", n>>
FunctionKey(f) == <<"function", f>>

FORMATS ==
    << [key |-> IntKey(DEBUG), fmt |-> <<grey>> \o log_format \o <<reset>>],
       [key |-> IntKey(INFO), fmt |-> <<grey>> \o log_format \o <<reset>>],
       [key |-> IntKey(WARNING), fmt |-> <<yellow>> \o log_format \o <<reset>>],
       [key |-> IntKey(ERROR), fmt |-> <<red>> \o log_format \o <<reset>>],
       [key |-> IntKey(CRITICAL), fmt |-> <<bold_red>> \o log_format \o <<reset>>],
       [key |-> FunctionKey("logging.exception"),
        fmt |-> <<bold_light_red>> \o log_format \o <<reset>>] >>

\* a lookup without a default: FORMATS[levelno] raises KeyError
FormatsGet_strict(levelno, default) ==
    IF \E i \in 1..Len(FORMATS) : FORMATS[i].key = IntKey(levelno)
    THEN FORMATS[CHOOSE i \in 1..Len(FORMATS) : FORMATS[i].key = IntKey(levelno)].fmt
    ELSE <<"KeyError">>

\* self.FORMATS.get(levelno, default)
FormatsGet(levelno, default) ==
    IF \E i \in 1..Len(FORMATS) : FORMATS[i].key = IntKey(levelno)
    THEN FORMATS[CHOOSE i \in 1..Len(FORMATS) : FORMATS[i].key = IntKey(levelno)].fmt
    ELSE default

\* logging.getLevelName(levelno)
GetLevelName(levelno) ==
    CASE levelno = DEBUG -> "DEBUG"
      [] levelno = INFO -> "INFO"
      [] levelno = WARNING -> "WARNING"
      [] levelno = ERROR -> "ERROR"
      [] levelno = CRITICAL -> "CRITICAL"
      [] OTHER -> "Level " \o Digits(levelno)

\* a LogRecord, with asctime already rendered by datefmt
LogRecord(asctime, funcName, levelno, message, filename, lineno) ==
    [asctime |-> asctime, funcName |-> funcName, levelno |-> levelno,
     levelname |-> GetLevelName(levelno), message |-> message,
     filename |-> filename, lineno |-> lineno]

\* the value substituted for one piece of a format string
Piece(tok, r) ==
    CASE tok = "%(asctime)s" -> r.asctime
      [] tok = "%(funcName)s" -> r.funcName
      [] tok = "%(levelname)s" -> r.levelname
      [] tok = "%(message)s" -> r.message
      [] tok = "%(filename)s" -> r.filename
      [] tok = "%(lineno)d" -> Digits(r.lineno)
      [] OTHER -> tok

\* logging.Formatter(fmt, datefmt=...).format(r)
FormatterFormat(fmt, r) == Join([i \in 1..Len(fmt) |-> Piece(fmt[i], r)])

\* the format string SetColor.format selects for r
SelectFormat(r) == FormatsGet(r.levelno, <<grey>> \o log_format \o <<reset>>)

Records ==
    {LogRecord("2024-05-01 12:00:00", f, l, m, "main.py", n) :
        f \in {"main", "setup_logging"}, l \in LevelNos,
        m \in {"hi", "x - y"}, n \in {7, 24}}

NoRecord == LogRecord("", "", 0, "", "", 0)

\* SetColor().format(r)
SetColorFormat(r) ==
    /\ rec' = r
    /\ rendered' = FormatterFormat(SelectFormat(r), r)
    /\ formatted' = formatted \cup {r.levelno}
    /\ used' = used \cup {Head(SelectFormat(r))}
    /\ UNCHANGED <<logVars, thrVars>>

-----------------------------------------------------------------------------
(* Two threads writing to the same StreamToLogger, one write call each *)

Threads == {1, 2}

ConcChars == {"a", "b", "\n"}
ConcChunks == UNION {[1..k -> ConcChars] : k \in 0..MaxConcLen}

\* write(buf) is entered: buf.rstrip().splitlines() is evaluated
TCall(t, buf) ==
    /\ pc[t] = "idle"
    /\ arg' = [arg EXCEPT ![t] = buf]
    /\ lines' = [lines EXCEPT ![t] = SplitLines(RStrip(buf))]
    /\ pc' = [pc EXCEPT ![t] = "for"]
    /\ UNCHANGED <<msg, sent, logVars, fmtVars>>

\* the for loop is exhausted: write returns
TReturn(t) ==
    /\ pc[t] = "for"
    /\ lines[t] = <<>>
    /\ pc' = [pc EXCEPT ![t] = "done"]
    /\ UNCHANGED <<arg, lines, msg, sent, logVars, fmtVars>>

\* self.linebuf.append(line)
TAppend(t) ==
    /\ pc[t] = "for"
    /\ lines[t] # <<>>
    /\ Len(Head(lines[t])) = 1
    /\ stderr' = [stderr EXCEPT !.linebuf = Append(@, Join(Head(lines[t])))]
    /\ lines' = [lines EXCEPT ![t] = Tail(@)]
    /\ UNCHANGED <<pc, arg, msg, sent>>
    /\ UNCHANGED <<loggerLevel, handlers, dirs, nRedirect, imported, out, op>>
    /\ UNCHANGED fmtVars

\* msg = "".join([*self.linebuf, line.rstrip()])
TJoin(t) ==
    /\ pc[t] = "for"
    /\ lines[t] # <<>>
    /\ Len(Head(lines[t])) # 1
    /\ msg' = [msg EXCEPT ![t] = Join(stderr.linebuf \o <<Join(RStrip(Head(lines[t])))>>)]
    /\ pc' = [pc EXCEPT ![t] = "log"]
    /\ UNCHANGED <<arg, lines, sent, logVars, fmtVars>>

\* self.logger.log(self.log_level, msg)
TLog(t) ==
    /\ pc[t] = "log"
    /\ sent' = [sent EXCEPT ![t] = Append(@, msg[t])]
    /\ out' = <<LoggerLog(loggerLevel, handlers, stderr.log_level, msg[t])>>
    /\ pc' = [pc EXCEPT ![t] = "clear"]
    /\ UNCHANGED <<arg, lines, msg>>
    /\ UNCHANGED <<loggerLevel, handlers, dirs, stderr, nRedirect, imported, op>>
    /\ UNCHANGED fmtVars

\* self.linebuf = []
TClear(t) ==
    /\ pc[t] = "clear"
    /\ stderr' = [stderr EXCEPT !.linebuf = <<>>]
    /\ lines' = [lines EXCEPT ![t] = Tail(@)]
    /\ pc' = [pc EXCEPT ![t] = "for"]
    /\ UNCHANGED <<arg, msg, sent>>
    /\ UNCHANGED <<loggerLevel, handlers, dirs, nRedirect, imported, out, op>>
    /\ UNCHANGED fmtVars

-----------------------------------------------------------------------------
(* Specifications *)

InitFmt ==
    /\ rec = NoRecord
    /\ rendered = ""
    /\ formatted = {}
    /\ used = {}

InitThreads ==
    /\ pc = [t \in Threads |-> "idle"]
    /\ arg = [t \in Threads |-> <<>>]
    /\ lines = [t \in Threads |-> <<>>]
    /\ msg = [t \in Threads |-> ""]
    /\ sent = [t \in Threads |-> <<>>]

\* a fresh interpreter: the root logger is at WARNING and has no handler
Init ==
    /\ loggerLevel = WARNING
    /\ handlers = <<>>
    /\ dirs = {"."}
    /\ stderr = TextIO
    /\ nRedirect = 0
    /\ imported = FALSE
    /\ out = <<>>
    /\ op = [name |-> "start"]
    /\ InitFmt
    /\ InitThreads

\* the state SetLogger(log_level=level) leaves a fresh interpreter in
AfterSetLogger(level) ==
    /\ loggerLevel = level
    /\ handlers = ConfigureHandlers(<<>>, level, None, {"."})
    /\ dirs = {"."}
    /\ stderr = StreamToLogger(1)
    /\ nRedirect = 1
    /\ imported = FALSE
    /\ out = <<>>
    /\ op = [name |-> "SetLogger", path_arg |-> None, log_path |-> ".",
             log_name |-> None, log_level |-> level, log_file |-> None,
             hadHandlers |-> FALSE, raised |-> FALSE]
    /\ InitFmt
    /\ InitThreads

DirArgs == {None, "logs", "logs/app"}
NameArgs == {None, "run.log", "b.log"}
FileArgs == {None, "", "./run.log", "logs/run.log"}
LogLevels == {DEBUG, INFO, ERROR}
StderrChunks == {<<"a">>, <<"b", "c", "\n">>}

Next ==
    \/ \E l \in LevelArgs, f \in FileArgs : SetLogConfig(l, f)
    \/ \E d \in DirArgs, n \in NameArgs, l \in LevelArgs : SetLogger(d, n, l)
    \/ ImportMain
    \/ \E v \in BOOLEAN : Main(v)
    \/ \E l \in LogLevels : Log(l, "m")
    \/ \E buf \in StderrChunks : StderrWrite(buf)

Spec == Init /\ [][Next]_vars

\* writes to the redirected standard error
ExampleChunks ==
    { <<"a", "\n", "b", "c", "\n">>, <<"h", "e", "l", "l", "o", "\n">> }
InitWrite == \E l \in {INFO, CRITICAL} : AfterSetLogger(l)
NextWrite == \E buf \in Chunks(MaxLen) \cup ExampleChunks : StderrWrite(buf)
SpecWrite == InitWrite /\ [][NextWrite]_vars

\* SetColor.format applied to records
NextFmt == \E r \in Records : SetColorFormat(r)
SpecFmt == Init /\ [][NextFmt]_vars

\* two threads, each calling sys.stderr.write once
InitConc == AfterSetLogger(INFO)
NextConc ==
    \E t \in Threads :
        \/ \E buf \in ConcChunks : TCall(t, buf)
        \/ TReturn(t)
        \/ TAppend(t)
        \/ TJoin(t)
        \/ TLog(t)
        \/ TClear(t)
SpecConc == InitConc /\ [][NextConc]_vars

-----------------------------------------------------------------------------
(* Properties of the handler set-up (Spec) *)

NumKind(hs, k) == Cardinality({i \in 1..Len(hs) : hs[i].kind = k})

\* the lines one logger.log call r writes through handlers of kind k
LinesTo(r, k) == Cardinality({j \in 1..Len(r.sinks) : handlers[r.sinks[j]].kind = k})

IsConstruction(o) == o.name \in {"SetLogConfig", "SetLogger"}

SameArguments(o1, o2) ==
    /\ o1.name = o2.name
    /\ o1.log_level = o2.log_level
    /\ o1.log_file = o2.log_file
    /\ o1.name = "SetLogger" =>
          o1.path_arg = o2.path_arg /\ o1.log_name = o2.log_name

C1_AtMostOne ==
    /\ NumKind(handlers, "StreamHandler") <= 1
    /\ NumKind(handlers, "RotatingFileHandler") <= 1
    /\ \A k \in 1..Len(out) :
          /\ LinesTo(out[k], "StreamHandler") <= 1
          /\ LinesTo(out[k], "RotatingFileHandler") <= 1

C1_Twice ==
    [][ ( /\ IsConstruction(op) /\ IsConstruction(op')
          /\ SameArguments(op, op')
          /\ ~op.hadHandlers /\ ~op.raised /\ Truthy(op.log_file) )
        => ( /\ handlers' = handlers
             /\ NumKind(handlers', "StreamHandler") = 1
             /\ NumKind(handlers', "RotatingFileHandler") = 1 ) ]_vars

\* C1: whatever constructions of SetLogConfig and SetLogger have run, the root
\* logger has at most one console handler and at most one file handler, and a
\* log call writes at most one line to each; a second construction with the
\* arguments of the first (a log file among them) leaves exactly one of each.
C1_OneSinkEach == []C1_AtMostOne /\ C1_Twice

\* a second construction, given a log file, after which one of each is attached
C1_Witness ==
    /\ op.name = "SetLogger" /\ op.hadHandlers /\ Truthy(op.log_file)
    /\ NumKind(handlers, "StreamHandler") = 1
    /\ \E i \in 1..Len(handlers) : handlers[i].file = op.log_file

C2_One ==
    /\ nRedirect <= 1
    /\ Redirected => stderr.id = 1 /\ nRedirect = 1
    /\ op.name = "SetLogger" => Redirected

C2_Kept == [][ (op'.name = "SetLogger" /\ Redirected) => stderr' = stderr ]_vars

\* C2: however often SetLogger is initialised, exactly one StreamToLogger is
\* ever constructed; the first initialisation installs it over sys.stderr and
\* a later one leaves it, and its LineBuffer, as they are.
C2_InstalledOnce == []C2_One /\ C2_Kept

\* a later initialisation that found a fragment buffered and kept it
C2_Witness ==
    /\ op.name = "SetLogger" /\ op.hadHandlers
    /\ Redirected /\ stderr.linebuf # <<>> /\ nRedirect = 1

HasConsole == \E i \in 1..Len(handlers) : handlers[i].kind = "StreamHandler"

HasFileAt(p) ==
    \E i \in 1..Len(handlers) :
        handlers[i].kind = "RotatingFileHandler" /\ handlers[i].file = p

BothSet(o) == o.name = "SetLogger" /\ o.path_arg # None /\ o.log_name # None

C5_NameUnset ==
    (op.name = "SetLogger" /\ op.log_name = None) =>
        /\ op.log_file = None
        /\ ~op.hadHandlers => NumKind(handlers, "RotatingFileHandler") = 0

\* C5 as stated: SetLogger(log_path=d, log_name=f) always returns with d
\* existing and a console handler and a file handler at d/f attached.
C5_AsStated ==
    /\ BothSet(op) =>
          /\ op.path_arg \in dirs
          /\ HasConsole
          /\ HasFileAt(op.path_arg \o "/" \o op.log_name)
    /\ C5_NameUnset

\* C5, amended: SetLogger(log_path=d, log_name=f) returns with d existing,
\* and, when the root logger had no handler at the call, with a console
\* handler and a file handler at d/f attached; with log_name unset no log
\* file is requested.
C5_FirstInit ==
    /\ BothSet(op) =>
          /\ op.path_arg \in dirs
          /\ ~op.hadHandlers =>
                /\ HasConsole
                /\ HasFileAt(op.path_arg \o "/" \o op.log_name)
                /\ Len(handlers) = 2
    /\ C5_NameUnset

\* a first initialisation with a directory that had to be created
C5_Witness ==
    /\ BothSet(op) /\ ~op.hadHandlers
    /\ op.path_arg = "logs/app" /\ HasFileAt("logs/app/run.log")

AllAtLevel(hs, l) == \A i \in 1..Len(hs) : hs[i].level = l

\* C8: main(verbose=True) leaves the root logger and each of its handlers at
\* DEBUG and logs one INFO record, delivered once to each handler, the
\* handlers being otherwise as before; main(verbose=False) changes no
\* threshold and logs nothing.
C8_Verbose ==
    [][ op'.name = "main" =>
          IF op'.verbose
          THEN /\ loggerLevel' = DEBUG
               /\ AllAtLevel(handlers', DEBUG)
               /\ Len(handlers') = Len(handlers)
               /\ \A i \in 1..Len(handlers) :
                     [handlers'[i] EXCEPT !.level = handlers[i].level] = handlers[i]
               /\ Len(out') = 1
               /\ out'[1].levelno = INFO /\ out'[1].msg = UpdatedMsg
               /\ out'[1].passed
               /\ out'[1].sinks = [i \in 1..Len(handlers') |-> i]
          ELSE /\ loggerLevel' = loggerLevel
               /\ handlers' = handlers
               /\ out' = <<>> ]_vars

\* main(verbose=True) on a logger with a console and a file handler
C8_Witness ==
    /\ op.name = "main" /\ op.verbose
    /\ Len(handlers) = 2 /\ Len(out) = 1 /\ out[1].sinks = <<1, 2>>

C10_Frame ==
    [][ (IsConstruction(op') /\ handlers # <<>>) =>
          /\ loggerLevel' = op'.log_level
          /\ handlers' = handlers ]_vars

C10_Dropped ==
    ( /\ op.name = "log" /\ op.levelno = DEBUG
      /\ loggerLevel = DEBUG
      /\ handlers # <<>> /\ AllAtLevel(handlers, INFO) )
    => ( /\ Len(out) = 1 /\ out[1].passed /\ out[1].sinks = <<>> )

\* C10: a construction that finds a handler attached sets the root logger's
\* threshold to the level it was given and leaves the handlers, with their
\* thresholds, formatters and files, as they were; so a DEBUG record logged
\* after configure(INFO), configure(DEBUG) passes the logger and reaches no
\* handler.
C10_ThresholdOnly == C10_Frame /\ []C10_Dropped

\* a DEBUG record logged at a DEBUG logger whose handlers stayed at INFO
C10_Witness ==
    /\ op.name = "log" /\ op.levelno = DEBUG
    /\ loggerLevel = DEBUG
    /\ handlers # <<>> /\ AllAtLevel(handlers, INFO)
    /\ Len(out) = 1 /\ out[1].passed /\ out[1].sinks = <<>>

-----------------------------------------------------------------------------
(* Properties of StreamToLogger.write (SpecWrite) *)

\* the lines of the chunk last written, after its trailing whitespace is cut
WLines == SplitLines(RStrip(op.buf))
WStrs == [j \in 1..Len(WLines) |-> Join(WLines[j])]

\* the lines that are logged, and the one logged last before line i
Emitting == {i \in 1..Len(WLines) : Len(WLines[i]) # 1}
PrevEmit(i) ==
    LET S == {j \in Emitting : j < i} \cup {0}
    IN CHOOSE m \in S : \A j \in S : j <= m
Rank(i) == Cardinality({j \in Emitting : j <= i})

\* the fragments buffered when line i is reached, in arrival order
Pending(i) ==
    (IF PrevEmit(i) = 0 THEN op.before ELSE <<>>)
    \o SubSeq(WStrs, PrevEmit(i) + 1, i - 1)

C3_Examples ==
    /\ (op.buf = <<"a", "\n", "b", "c", "\n">> /\ op.before = <<>>) =>
          /\ Len(out) = 1 /\ out[1].msg = "abc" /\ stderr.linebuf = <<>>
    /\ (op.buf = <<"h", "e", "l", "l", "o", "\n">> /\ op.before = <<>>) =>
          /\ Len(out) = 1 /\ out[1].msg = "hello" /\ out[1].levelno = ERROR

C3_Buffering ==
    /\ Len(out) = Cardinality(Emitting)
    /\ stderr.linebuf = Pending(Len(WLines) + 1)

-----------------------------------------------------------------------------
(* Properties of SetColor.format (SpecFmt) *)

\* the format string of a recognised level, without its colour codes
LayoutOf(l) ==
    LET f == FORMATS[CHOOSE i \in 1..Len(FORMATS) : FORMATS[i].key = IntKey(l)].fmt
    IN SubSeq(f, 2, Len(f) - 1)

\* C6: for a record whose level is none of DEBUG, INFO, WARNING, ERROR and
\* CRITICAL, format returns a string: the grey prefix, the record laid out as
\* the format string of each recognised level lays it out, and the reset.
C6_DefaultStyle ==
    (formatted # {} /\ rec.levelno \notin NamedLevels) =>
        \A l \in NamedLevels :
            rendered = grey \o FormatterFormat(LayoutOf(l), rec) \o reset

\* a record of the unrecognised level 25 has been formatted
C6_Witness ==
    /\ rec.levelno = 25 /\ rec.levelname = "Level 25"
    /\ 25 \in formatted /\ rendered # ""

\* C7: between the colour prefix and the reset, format renders
\* "<timestamp> - <function> - <level> - <message> (<file>:<line>)".
C7_Layout ==
    formatted # {} =>
        \E c \in Styles :
            rendered = c \o rec.asctime \o " - " \o rec.funcName \o " - "
                         \o rec.levelname \o " - " \o rec.message
                         \o " (" \o rec.filename \o ":" \o Digits(rec.lineno)
                         \o ")" \o reset

\* C9: once a record of every severity has been formatted, each of the five
\* styles has been the one selected for some record.
C9_EveryStyleSelected == formatted = LevelNos => used = Styles

-----------------------------------------------------------------------------
(* Properties of concurrent writes (SpecConc) *)

Done == \A t \in Threads : pc[t] = "done"

\* what the two calls leave behind when t1's write runs wholly before t2's
Serial(t1, t2) ==
    LET r1 == Write(<<>>, arg[t1])
        r2 == Write(r1.linebuf, arg[t2])
    IN /\ sent[t1] = r1.msgs
       /\ sent[t2] = r2.msgs
       /\ stderr.linebuf = r2.linebuf

\* C4: two concurrent write calls have the effect of the two calls run one
\* after the other, in one order or the other.
C4_CriticalSection == Done => Serial(1, 2) \/ Serial(2, 1)

====
